---- MODULE Spec2Model ----
(***************************************************************************)
(* A model of the Sudoku solver of JdJ1n/Sudoku_Solver.                    *)
(*                                                                         *)
(* A Python string is a sequence of one-character strings; a square name   *)
(* ('A1') is the string the source builds by concatenation; values is a    *)
(* function from square names to strings of digits.                       *)
(***************************************************************************)
EXTENDS Integers, Sequences, FiniteSets, TLC

(***************************************************************************)
(* Strings and lists.                                                      *)
(***************************************************************************)

\* c in text, for a one-character c and a string text
In(c, text) == \E i \in 1..Len(text) : text[i] = c

\* text.replace(c, ''), for a one-character c
replace(text, c) == SelectSeq(text, LAMBDA x : x # c)

\* the elements of a list, as a set
Range(seq) == {seq[i] : i \in 1..Len(seq)}

\* the position of an element in a list without duplicates
IndexOf(seq, x) == CHOOSE i \in 1..Len(seq) : seq[i] = x

(***************************************************************************)
(* Topology: src/sudoku(Python3.8+).py lines 17-32.                        *)
(***************************************************************************)

\* [a + b for a in front for b in back]
cross(front, back) ==
    [k \in 1..(Len(front) * Len(back)) |->
        front[((k - 1) \div Len(back)) + 1] \o back[((k - 1) % Len(back)) + 1]]

digits == <<"1", "2", "3", "4", "5", "6", "7", "8", "9">>

rows == <<"A", "B", "C", "D", "E", "F", "G", "H", "I">>

cols == digits

squares == cross(rows, cols)

Squares == Range(squares)

\* the row and column groups of the boxes: ('ABC', 'DEF', 'GHI'), ('123', '456', '789')
rowGroups == <<SubSeq(rows, 1, 3), SubSeq(rows, 4, 6), SubSeq(rows, 7, 9)>>

colGroups == <<SubSeq(cols, 1, 3), SubSeq(cols, 4, 6), SubSeq(cols, 7, 9)>>

\* unitlist without the boxes
unitlist_rows_cols ==
    [c \in 1..9 |-> cross(rows, <<cols[c]>>)] \o [r \in 1..9 |-> cross(<<rows[r]>>, cols)]

unitlist ==
    [c \in 1..9 |-> cross(rows, <<cols[c]>>)]
    \o [r \in 1..9 |-> cross(<<rows[r]>>, cols)]
    \o [k \in 1..9 |-> cross(rowGroups[((k - 1) \div 3) + 1], colGroups[((k - 1) % 3) + 1])]

\* units = dict((s, [u for u in unitlist if s in u]) for s in squares)
units_dict == [s \in Squares |-> SelectSeq(unitlist, LAMBDA u : In(s, u))]

\* set(sum(units[s], [])), the square itself not taken out
units_set(s) == UNION {Range(units_dict[s][i]) : i \in 1..Len(units_dict[s])}

\* set(sum(units[s], [])) - {s}
peers_set(s) ==
    (UNION {Range(units_dict[s][i]) : i \in 1..Len(units_dict[s])}) \ {s}

(***************************************************************************)
(* The state.                                                              *)
(***************************************************************************)
VARIABLES
    units,      \* the module's dict units
    peers,      \* the module's dict peers: peers[s] is the list of the elements of
                \* the set, in the order in which this process iterates over it
    grid,       \* the puzzle text the program is given
    entry,      \* the function the caller calls: "solve" or "search" (of parse_grid)
    run,        \* the text is solved twice: 1 or 2
    first,      \* how the first run ended
    pc,         \* where the program is
    clues,      \* grid_values(grid)
    pos,        \* parse_grid: the index in squares of the next item of the loop
    values,     \* parse_grid, hill_climbing: the dict values, or False
    heap,       \* search: the dicts that exist, a reference being an index
    stack,      \* search: the calls of search that are in their loop
    at,         \* search: "call", "loop" or "return"
    arg,        \* search: the argument of the call being made (a reference, or NoRef for False)
    ret,        \* search: the value being returned (a reference, or NoRef for False)
    square,     \* hill_climbing: the index of the next square of generate_neighbors
    current_conflicts,
    best_neighbor,
    best_conflicts,
    returned,   \* what the call returned
    calls,      \* the calls of assign and eliminate a caller made on the parsed grid
    unfixed,    \* sudoku_annealing, sudoku_hillclimbing: the module's list unfixed
    current,    \* simulated_annealing: the dict current
    current_score,
    next_neighbor,  \* simulated_annealing: neighbor, what generate_neighbor returned
    neighbors,  \* sudoku_hillclimbing: the list generate_all_neighbors returned
    iteration   \* simulated_annealing: the number of turns of its loop

vars == <<units, peers, grid, entry, run, first, pc, clues, pos, values, heap, stack, at,
          arg, ret, square, current_conflicts, best_neighbor, best_conflicts, returned,
          calls, unfixed, current, current_score, next_neighbor, neighbors, iteration>>

\* the variables of src/sudoku_annealing.py and src/sudoku_hillclimbing.py alone
local == <<unfixed, current, current_score, next_neighbor, neighbors, iteration>>

\* the squares of a set as a list, in the order of squares
listed(S) == SelectSeq(squares, LAMBDA s : s \in S)

reversed(seq) == [i \in 1..Len(seq) |-> seq[Len(seq) + 1 - i]]

\* peers[s] is a set of strings: the order of "for s2 in peers[s]" is that of
\* the string hashes of the process.  Two of the possible orders are modelled.
peers_dicts ==
    {[s \in Squares |-> listed(peers_set(s))],
     [s \in Squares |-> reversed(listed(peers_set(s)))]}

(***************************************************************************)
(* Constraint propagation: src/sudoku(Python3.8+).py lines 73-105.         *)
(*                                                                         *)
(* assign and eliminate return "values, except False if a contradiction is *)
(* detected", and they change the dict values in place.  What a call       *)
(* returns is a record r: r.is_False tells whether it is False, r.values   *)
(* is the dict as the call left it.                                        *)
(*                                                                         *)
(* The loops of the source are all(... for ...) and "for u in units[s]",   *)
(* which stop at the first call that returns False.  They are written out  *)
(* call by call (a square has 20 peers and 3 units, a string of candidates *)
(* at most 9 digits).  Each call takes what the call before it returned,   *)
(* and is made only when that is not False: given False, assign, eliminate *)
(* and place stand for the call that is not made, and hand False on.       *)
(***************************************************************************)

Values(v) == [is_False |-> FALSE, values |-> v]

\* return values, where the source has return False
not_False(v) == [is_False |-> FALSE, values |-> v]

\* return False: the caller gets False, and holds the dict as the call left it
False(v) == [is_False |-> TRUE, values |-> v]

\* return False, where the source has return values
contradiction(r) == [is_False |-> TRUE, values |-> r.values]

\* return values  ## Already eliminated
already_eliminated(r) == r

\* assign and eliminate call each other: propagate("assign", r, s, d) is
\* assign(values, s, d) and propagate("eliminate", r, s, d) is
\* eliminate(values, s, d), for r what the call before returned
RECURSIVE propagate(_, _, _, _)

\* rule (2), the body of "for u in units[s]" for the unit u
place(r, u, d) ==
    LET dplaces == SelectSeq(u, LAMBDA s : In(d, r.values[s]))
    IN CASE r.is_False -> r
         [] Len(dplaces) = 0 -> False(r.values)
         [] Len(dplaces) = 1 -> propagate("assign", r, dplaces[1], d)
         [] OTHER -> r

propagate(f, r, s, d) ==
    CASE f = "assign" ->
            LET other_values == replace(r.values[s], d)
                o1 == propagate("eliminate", r, s, other_values[1])
                o2 == propagate("eliminate", o1, s, other_values[2])
                o3 == propagate("eliminate", o2, s, other_values[3])
                o4 == propagate("eliminate", o3, s, other_values[4])
                o5 == propagate("eliminate", o4, s, other_values[5])
                o6 == propagate("eliminate", o5, s, other_values[6])
                o7 == propagate("eliminate", o6, s, other_values[7])
                o8 == propagate("eliminate", o7, s, other_values[8])
                o9 == propagate("eliminate", o8, s, other_values[9])
            IN CASE r.is_False -> r
                 [] Len(other_values) = 0 -> r
                 [] o1.is_False \/ Len(other_values) = 1 -> o1
                 [] o2.is_False \/ Len(other_values) = 2 -> o2
                 [] o3.is_False \/ Len(other_values) = 3 -> o3
                 [] o4.is_False \/ Len(other_values) = 4 -> o4
                 [] o5.is_False \/ Len(other_values) = 5 -> o5
                 [] o6.is_False \/ Len(other_values) = 6 -> o6
                 [] o7.is_False \/ Len(other_values) = 7 -> o7
                 [] o8.is_False \/ Len(other_values) = 8 -> o8
                 [] OTHER -> o9
      [] OTHER ->
            LET removed == [r.values EXCEPT ![s] = replace(@, d)]
                \* rule (1): all(eliminate(values, s2, d2) for s2 in peers[s])
                d2 == removed[s][1]
                ps == peers[s]
                p1 == propagate("eliminate", Values(removed), ps[1], d2)
                p2 == propagate("eliminate", p1, ps[2], d2)
                p3 == propagate("eliminate", p2, ps[3], d2)
                p4 == propagate("eliminate", p3, ps[4], d2)
                p5 == propagate("eliminate", p4, ps[5], d2)
                p6 == propagate("eliminate", p5, ps[6], d2)
                p7 == propagate("eliminate", p6, ps[7], d2)
                p8 == propagate("eliminate", p7, ps[8], d2)
                p9 == propagate("eliminate", p8, ps[9], d2)
                p10 == propagate("eliminate", p9, ps[10], d2)
                p11 == propagate("eliminate", p10, ps[11], d2)
                p12 == propagate("eliminate", p11, ps[12], d2)
                p13 == propagate("eliminate", p12, ps[13], d2)
                p14 == propagate("eliminate", p13, ps[14], d2)
                p15 == propagate("eliminate", p14, ps[15], d2)
                p16 == propagate("eliminate", p15, ps[16], d2)
                p17 == propagate("eliminate", p16, ps[17], d2)
                p18 == propagate("eliminate", p17, ps[18], d2)
                p19 == propagate("eliminate", p18, ps[19], d2)
                p20 == propagate("eliminate", p19, ps[20], d2)
                \* rule (2): for u in units[s]
                u0 == IF Len(removed[s]) = 1 THEN p20 ELSE Values(removed)
                u1 == place(u0, units[s][1], d)
                u2 == place(u1, units[s][2], d)
                u3 == place(u2, units[s][3], d)
            IN CASE r.is_False -> r
                 [] ~In(d, r.values[s]) -> already_eliminated(r)
                 [] Len(removed[s]) = 0 -> False(removed)
                 [] Len(removed[s]) = 1 /\ p1.is_False -> p1
                 [] Len(removed[s]) = 1 /\ p2.is_False -> p2
                 [] Len(removed[s]) = 1 /\ p3.is_False -> p3
                 [] Len(removed[s]) = 1 /\ p4.is_False -> p4
                 [] Len(removed[s]) = 1 /\ p5.is_False -> p5
                 [] Len(removed[s]) = 1 /\ p6.is_False -> p6
                 [] Len(removed[s]) = 1 /\ p7.is_False -> p7
                 [] Len(removed[s]) = 1 /\ p8.is_False -> p8
                 [] Len(removed[s]) = 1 /\ p9.is_False -> p9
                 [] Len(removed[s]) = 1 /\ p10.is_False -> p10
                 [] Len(removed[s]) = 1 /\ p11.is_False -> p11
                 [] Len(removed[s]) = 1 /\ p12.is_False -> p12
                 [] Len(removed[s]) = 1 /\ p13.is_False -> p13
                 [] Len(removed[s]) = 1 /\ p14.is_False -> p14
                 [] Len(removed[s]) = 1 /\ p15.is_False -> p15
                 [] Len(removed[s]) = 1 /\ p16.is_False -> p16
                 [] Len(removed[s]) = 1 /\ p17.is_False -> p17
                 [] Len(removed[s]) = 1 /\ p18.is_False -> p18
                 [] Len(removed[s]) = 1 /\ p19.is_False -> p19
                 [] Len(removed[s]) = 1 /\ p20.is_False -> p20
                 [] u1.is_False -> u1
                 [] u2.is_False -> u2
                 [] OTHER -> u3

\* values[s] = d; return values: the digit is put, and nothing is eliminated
assign_only(r, s, d) == IF r.is_False THEN r ELSE Values([r.values EXCEPT ![s] = <<d>>])

\* assign(values, s, d), lines 73-80
assign(r, s, d) == propagate("assign", r, s, d)

\* eliminate(values, s, d), lines 83-105
eliminate(r, s, d) == propagate("eliminate", r, s, d)

(***************************************************************************)
(* The puzzle texts the model solves.                                      *)
(***************************************************************************)

\* src/sudoku(Python3.8+).py line 292
grid1 ==
    <<"0", "0", "3", "0", "2", "0", "6", "0", "0",
      "9", "0", "0", "3", "0", "5", "0", "0", "1",
      "0", "0", "1", "8", "0", "6", "4", "0", "0",
      "0", "0", "8", "1", "0", "2", "9", "0", "0",
      "7", "0", "0", "0", "0", "0", "0", "0", "8",
      "0", "0", "6", "7", "0", "8", "2", "0", "0",
      "0", "0", "2", "6", "0", "9", "5", "0", "0",
      "8", "0", "0", "2", "0", "3", "0", "0", "9",
      "0", "0", "5", "0", "1", "0", "3", "0", "0">>

\* the solution of grid1, as a text
solved1 ==
    <<"4", "8", "3", "9", "2", "1", "6", "5", "7",
      "9", "6", "7", "3", "4", "5", "8", "2", "1",
      "2", "5", "1", "8", "7", "6", "4", "9", "3",
      "5", "4", "8", "1", "3", "2", "9", "7", "6",
      "7", "2", "9", "5", "6", "4", "1", "3", "8",
      "1", "3", "6", "7", "9", "8", "2", "4", "5",
      "3", "7", "2", "6", "8", "9", "5", "1", "4",
      "8", "1", "4", "2", "5", "3", "7", "6", "9",
      "6", "9", "5", "4", "1", "7", "3", "8", "2">>

\* the digits 1..MaxBlankDigit are the clues a text may lack
MaxBlankDigit == 3

\* the text with every clue that is one of the digits of D turned into a blank
blank(text, D) == [i \in 1..Len(text) |-> IF text[i] \in D THEN "." ELSE text[i]]

\* the text with the clues of X, a set of <<index of a square, digit>>, written over it
put(text, X) ==
    [i \in 1..Len(text) |-> IF \E x \in X : x[1] = i THEN (CHOOSE x \in X : x[1] = i)[2]
                            ELSE text[i]]

\* clues added to a text: none; "3" in E2; "1" in E7 and G1; "1" in A5 and A6
ExtraClues == {{}, {<<38, "3">>}, {<<43, "1">>, <<55, "1">>}, {<<5, "1">>, <<6, "1">>}}

\* a text may lack up to MaxTrim of its last characters, and be followed by
\* up to MaxJunk characters, each a digit, a blank or a separator
MaxTrim == 2

MaxJunk == 2

JunkChars == {"7", ".", "|"}

Junk == UNION {[1..n -> JunkChars] : n \in 0..MaxJunk}

edited(text) == {SubSeq(text, 1, Len(text) - k) \o j : k \in 0..MaxTrim, j \in Junk}

BlankDigits == SUBSET {digits[i] : i \in 1..MaxBlankDigit}

Texts ==
    {grid1}
    \cup {put(blank(solved1, D), X) : D \in BlankDigits, X \in ExtraClues}
    \cup edited(solved1)


(***************************************************************************)
(* Parsing: src/sudoku(Python3.8+).py lines 53-68.                         *)
(***************************************************************************)

\* chars = [c for c in grid]: every character counts
chars_all(text) == text

\* chars = [c for c in grid if c in digits or c in '0.']
chars(text) == SelectSeq(text, LAMBDA c : In(c, digits) \/ In(c, <<"0", ".">>))

\* dict(zip(reversed(squares), chars)): the squares taken from the last to the first
grid_values_reversed(text) ==
    [s \in Squares |-> chars(text)[Len(squares) + 1 - IndexOf(squares, s)]]

\* dict(zip(squares, chars)), once len(chars) == 81 is asserted
grid_values(text) == [s \in Squares |-> chars(text)[IndexOf(squares, s)]]

\* values = dict((s, digits) for s in squares)
all_digits == [s \in Squares |-> digits]

\* None, and the value of a variable that holds nothing yet
None == <<>>

NoRef == 0

Idle ==
    /\ clues = None /\ pos = 0 /\ values = None
    /\ heap = <<>> /\ stack = <<>> /\ at = "" /\ arg = NoRef /\ ret = NoRef
    /\ square = 0 /\ current_conflicts = 0 /\ best_neighbor = None /\ best_conflicts = 0
    /\ returned = None /\ calls = <<>>
    /\ unfixed = <<>> /\ current = None /\ current_score = 0
    /\ next_neighbor = None /\ neighbors = <<>> /\ iteration = 0

\* the module is loaded, and a caller holds one of the texts
Start(texts) ==
    /\ units = units_dict
    /\ peers \in peers_dicts
    /\ grid \in texts
    /\ entry = ""
    /\ run = 1
    /\ first = None
    /\ pc = "parse_grid"
    /\ Idle

Init == Start(Texts)

\* parse_grid is called: grid_values(grid) asserts len(chars) == 81
call_parse_grid ==
    /\ pc = "parse_grid"
    /\ IF Len(chars(grid)) = 81
       THEN /\ clues' = grid_values(grid)
            /\ values' = Values(all_digits)
            /\ pos' = 1
            /\ pc' = "for s, d"
       ELSE /\ pc' = "AssertionError"
            /\ UNCHANGED <<clues, values, pos>>
    /\ UNCHANGED <<local, units, peers, calls, grid, entry, run, first, heap, stack, at, arg, ret, square,
                   current_conflicts, best_neighbor, best_conflicts, returned>>

\* parse_grid: one item of "for s, d in grid_values(grid).items()", or the end of the loop
parse_grid_item ==
    /\ pc = "for s, d"
    /\ IF pos > Len(squares)
       THEN /\ pc' = "parsed"
            /\ UNCHANGED <<values, pos>>
       ELSE LET s == squares[pos]
                d == clues[s]
                r == IF In(d, digits) THEN assign(values, s, d) ELSE values
            IN IF r.is_False
               THEN /\ values' = r
                    /\ pc' = "parsed"
                    /\ UNCHANGED pos
               ELSE /\ values' = r
                    /\ pos' = pos + 1
                    /\ UNCHANGED pc
    /\ UNCHANGED <<local, units, peers, calls, grid, entry, run, first, clues, heap, stack, at, arg, ret,
                   square, current_conflicts, best_neighbor, best_conflicts, returned>>


(***************************************************************************)
(* Search: src/sudoku(Python3.8+).py lines 126-136 and 223-228.            *)
(*                                                                         *)
(* A dict is an object: heap is the list of the dicts that exist, and a    *)
(* reference to a dict is its index in heap.  A call of search that has    *)
(* reached its loop is a frame of stack: the dict it was given, the square *)
(* s it chose, the string values[s] it iterates over, the index i of the   *)
(* next digit, and mark, the size of heap before the copy it last made.    *)
(***************************************************************************)

\* values, not values.copy(): the same dict
no_copy(h, ref) == [heap |-> h, ref |-> ref]

\* values.copy() is made, and values is passed on: the copy is not used
copy_unused(h, ref) == [heap |-> Append(h, h[ref]), ref |-> ref]

\* values.copy(): a new dict with the same items
copy(h, ref) == [heap |-> Append(h, h[ref]), ref |-> Len(h) + 1]

\* any(len(values[s]) == 1 for s in squares)
any_single(v) == \E s \in Squares : Len(v[s]) = 1

\* all(len(values[s]) == 1 for s in squares)
all_single(v) == \A s \in Squares : Len(v[s]) = 1

\* the first square, in the order of squares, with more than one digit
first_unfilled(v) == SelectSeq(squares, LAMBDA s : Len(v[s]) > 1)[1]

\* _, s = min((len(values[s]), s) for s in squares if len(values[s]) > 1):
\* the tuples compare by length first, then by the name of the square, and
\* squares is in the order of the names
min_square(v) ==
    LET n == CHOOSE k \in 2..9 : /\ \E s \in Squares : Len(v[s]) = k
                                 /\ \A s \in Squares : Len(v[s]) > 1 => Len(v[s]) >= k
    IN SelectSeq(squares, LAMBDA s : Len(v[s]) = n)[1]

\* Sudoku.actions(state), src/sudoku_aima3.py lines 14-22, for a state that
\* is False (is_False) or a dict with a square of more than one digit
actions(state) ==
    IF state.is_False THEN <<>>
    ELSE LET s_choice == min_square(state.values)
         IN [i \in 1..Len(state.values[s_choice]) |-> <<s_choice, state.values[s_choice][i]>>]

\* Sudoku.result(state, action), src/sudoku_aima3.py lines 24-28, for state a
\* reference to a dict: the heap it leaves, and new_state (a reference, or
\* NoRef for False)
result(h, state, action) ==
    LET c == copy(h, state)
        new_state == assign(Values(c.heap[c.ref]), action[1], action[2])
    IN [heap |-> [c.heap EXCEPT ![c.ref] = new_state.values],
        ref |-> IF new_state.is_False THEN NoRef ELSE c.ref]

\* the caller calls search(parse_grid(grid))
call_search ==
    /\ pc = "parsed"
    /\ run = 1 \/ entry = "search"
    /\ entry' = "search"
    /\ pc' = "search"
    /\ at' = "call"
    /\ heap' = IF values.is_False THEN <<>> ELSE <<values.values>>
    /\ arg' = IF values.is_False THEN NoRef ELSE 1
    /\ UNCHANGED <<local, units, peers, calls, grid, run, first, clues, pos, values, stack, ret, square,
                   current_conflicts, best_neighbor, best_conflicts, returned>>

\* search(values) up to its loop
search_call ==
    /\ pc = "search" /\ at = "call"
    /\ IF arg = NoRef
       THEN ret' = NoRef /\ at' = "return" /\ UNCHANGED stack
       ELSE IF all_single(heap[arg])
            THEN ret' = arg /\ at' = "return" /\ UNCHANGED stack
            ELSE /\ stack' = Append(stack, [values |-> arg, s |-> min_square(heap[arg]),
                                            ds |-> heap[arg][min_square(heap[arg])],
                                            i |-> 1, mark |-> Len(heap)])
                 /\ at' = "loop"
                 /\ UNCHANGED ret
    /\ UNCHANGED <<local, units, peers, calls, grid, entry, run, first, pc, clues, pos, values, heap, arg,
                   square, current_conflicts, best_neighbor, best_conflicts, returned>>

\* "for d in reversed(values[s])": the i-th digit from the end
iterate_reversed(ds, i) == ds[Len(ds) + 1 - i]

\* "for d in values[s]": the i-th digit the generator yields
iterate(ds, i) == ds[i]

\* some(search(assign(values.copy(), s, d)) for d in values[s]): the next
\* element of the generator, up to its call of search, or the end of the loop
search_loop ==
    /\ pc = "search" /\ at = "loop"
    /\ LET top == stack[Len(stack)]
       IN IF top.i > Len(top.ds)
          THEN /\ stack' = SubSeq(stack, 1, Len(stack) - 1)
               /\ ret' = NoRef
               /\ at' = "return"
               /\ UNCHANGED <<heap, arg>>
          ELSE LET c == copy(heap, top.values)
                   r == assign(Values(c.heap[c.ref]), top.s, iterate(top.ds, top.i))
               IN /\ heap' = [c.heap EXCEPT ![c.ref] = r.values]
                  /\ arg' = IF r.is_False THEN NoRef ELSE c.ref
                  /\ stack' = [stack EXCEPT ![Len(stack)] =
                                   [top EXCEPT !.i = top.i + 1, !.mark = Len(heap)]]
                  /\ at' = "call"
                  /\ UNCHANGED ret
    /\ UNCHANGED <<local, units, peers, calls, grid, entry, run, first, pc, clues, pos, values, square,
                   current_conflicts, best_neighbor, best_conflicts, returned>>

\* a call of search returns ret: to some() in the calling search, which
\* returns it when it is true and goes on when it is False, or to the caller
search_return ==
    /\ pc = "search" /\ at = "return"
    /\ IF stack = <<>>
       THEN /\ returned' = IF ret = NoRef THEN False(None) ELSE Values(heap[ret])
            /\ pc' = "returned"
            /\ UNCHANGED <<heap, stack, at>>
       ELSE IF ret # NoRef
            THEN /\ stack' = SubSeq(stack, 1, Len(stack) - 1)
                 /\ UNCHANGED <<heap, at, pc, returned>>
            ELSE /\ heap' = SubSeq(heap, 1, stack[Len(stack)].mark)
                 /\ at' = "loop"
                 /\ UNCHANGED <<stack, pc, returned>>
    /\ UNCHANGED <<local, units, peers, calls, grid, entry, run, first, clues, pos, values, arg, ret,
                   square, current_conflicts, best_neighbor, best_conflicts>>


(***************************************************************************)
(* solve: src/sudoku(Python3.8+).py lines 123 and 162-219.                 *)
(***************************************************************************)

\* the digits of the squares of a unit, one string after the other
unit_digits(v, unit) ==
    v[unit[1]] \o v[unit[2]] \o v[unit[3]] \o v[unit[4]] \o v[unit[5]]
    \o v[unit[6]] \o v[unit[7]] \o v[unit[8]] \o v[unit[9]]

\* one unit of count_conflicts: a digit counts when it is in seen already,
\* that is every occurrence of a digit but its first
unit_conflicts(v, unit) ==
    Len(unit_digits(v, unit)) - Cardinality(Range(unit_digits(v, unit)))

RECURSIVE conflicts_from(_, _)
conflicts_from(v, k) ==
    IF k > Len(unitlist) THEN 0
    ELSE unit_conflicts(v, unitlist[k]) + conflicts_from(v, k + 1)

\* count_conflicts with "for unit in unitlist[:1]": the first unit only
first_unit_conflicts(v) == unit_conflicts(v, unitlist[1])

\* count_conflicts(values), for a dict
count_conflicts(v) == conflicts_from(v, 1)

\* neighbors_squares, the order of the list aside: random.sample picks any two
neighbors_squares(v, sq) ==
    {s \in Range(peers[sq]) :
        Len(v[s]) > 1 /\ Cardinality(Range(peers[s]) \cap Range(peers[sq])) > 5}

\* new_values[square1], new_values[square2] = new_values[square2], new_values[square1]
swapped(v, square1, square2) ==
    [v EXCEPT ![square1] = v[square2], ![square2] = v[square1]]

\* if neighbor_conflicts < best_conflicts
improves(neighbor_conflicts, best) == neighbor_conflicts < best

\* if best_neighbor is None or best_conflicts >= current_conflicts: break
stops(best, best_c, current_c) == best = None \/ best_c >= current_c

\* solve(grid) is hill_climbing(grid): after parse_grid, count_conflicts(values)
\* reads values[square], which raises TypeError when values is False
call_solve ==
    /\ pc = "parsed"
    /\ run = 1 \/ entry = "solve"
    /\ entry' = "solve"
    /\ IF values.is_False
       THEN /\ pc' = "TypeError"
            /\ UNCHANGED <<square, current_conflicts, best_neighbor, best_conflicts>>
       ELSE /\ pc' = "hill_climbing"
            /\ current_conflicts' = count_conflicts(values.values)
            /\ square' = 1
            /\ best_neighbor' = None
            /\ best_conflicts' = count_conflicts(values.values)
    /\ UNCHANGED <<local, units, peers, calls, grid, run, first, clues, pos, values, heap, stack, at, arg,
                   ret, returned>>

\* one square of generate_neighbors, and the turn of its neighbor in
\* "for neighbor in neighbors": the neighbors are evaluated in the order in
\* which they were appended, and evaluating one changes nothing but
\* best_neighbor and best_conflicts
hill_climbing_neighbor ==
    /\ pc = "hill_climbing"
    /\ square <= Len(squares)
    /\ LET ns == neighbors_squares(values.values, squares[square])
       IN IF Cardinality(ns) < 2
          THEN UNCHANGED <<best_neighbor, best_conflicts>>
          ELSE \E square1 \in ns : \E square2 \in ns \ {square1} :
                   LET neighbor == swapped(values.values, square1, square2)
                   IN IF improves(count_conflicts(neighbor), best_conflicts)
                      THEN /\ best_neighbor' = neighbor
                           /\ best_conflicts' = count_conflicts(neighbor)
                      ELSE UNCHANGED <<best_neighbor, best_conflicts>>
    /\ square' = square + 1
    /\ UNCHANGED <<local, units, peers, calls, grid, entry, run, first, pc, clues, pos, values, heap, stack,
                   at, arg, ret, current_conflicts, returned>>

\* the end of one turn of "while True": stop, or move to the best neighbor
hill_climbing_move ==
    /\ pc = "hill_climbing"
    /\ square > Len(squares)
    /\ IF stops(best_neighbor, best_conflicts, current_conflicts)
       THEN /\ returned' = values
            /\ pc' = "returned"
            /\ UNCHANGED <<values, current_conflicts, square, best_neighbor, best_conflicts>>
       ELSE /\ values' = Values(best_neighbor)
            /\ current_conflicts' = best_conflicts
            /\ square' = 1
            /\ best_neighbor' = None
            /\ UNCHANGED <<best_conflicts, pc, returned>>
    /\ UNCHANGED <<local, units, peers, calls, grid, entry, run, first, clues, pos, heap, stack, at, arg, ret>>

(***************************************************************************)
(* The caller gives the same text to solve a second time (solve_all, lines *)
(* 245-267, calls solve for each text of a list), in the same process or   *)
(* in another one, where the sets may iterate in another order.            *)
(***************************************************************************)

Ended == pc \in {"returned", "AssertionError", "TypeError"}

\* what the caller can tell of a call: the exception it ended with, or what it returned
outcome == [pc |-> pc, returned |-> returned]

again ==
    /\ Ended
    /\ run = 1
    /\ entry = "solve"
    /\ first' = outcome
    /\ run' = 2
    /\ pc' = "parse_grid"
    /\ clues' = None /\ pos' = 0 /\ values' = None
    /\ square' = 0 /\ current_conflicts' = 0 /\ best_neighbor' = None /\ best_conflicts' = 0
    /\ returned' = None
    /\ peers' \in peers_dicts
    /\ UNCHANGED <<local, units, calls, grid, entry, heap, stack, at, arg, ret>>

Next ==
    \/ call_parse_grid
    \/ parse_grid_item
    \/ call_search
    \/ search_call
    \/ search_loop
    \/ search_return
    \/ call_solve
    \/ hill_climbing_neighbor
    \/ hill_climbing_move
    \/ again

Spec == Init /\ [][Next]_vars

(***************************************************************************)
(* A caller of assign and eliminate, lines 73-105: it parses a text and    *)
(* calls the two functions on the grid parse_grid built, as search (line   *)
(* 136) and random_puzzle (lines 282-284) do, twice at most and with one   *)
(* digit.                                                                  *)
(***************************************************************************)

\* the squares and the digits the caller passes
MaxProbeSquare == 6

MaxProbeDigit == 3

ProbeSquares == {squares[i] : i \in 1..MaxProbeSquare}

ProbeDigits == {digits[i] : i \in 1..MaxProbeDigit}

\* the last square that is given the digit of the first square, A1, as well
MaxClashSquare == 13

\* the texts the caller parses: solved1 less the clues of some digits, less
\* all its clues, grid1 less the clues of the digits 1..MaxBlankDigit, and
\* the texts whose only clues are the same digit in A1 and in another square
PropagateTexts ==
    {blank(solved1, D) : D \in BlankDigits}
    \cup {blank(solved1, Range(digits)), blank(grid1, UNION BlankDigits)}
    \cup {put(blank(solved1, Range(digits)), {<<1, digits[1]>>, <<j, digits[1]>>}) :
             j \in 2..MaxClashSquare}

InitPropagate == Start(PropagateTexts)

\* f(values, s, d), for f one of assign and eliminate: values is changed in
\* place, and what the call returned is values or False
call(f, s, d) ==
    /\ pc = "parsed"
    /\ ~values.is_False
    /\ Len(calls) < 2
    /\ calls # <<>> => d = calls[1].d
    /\ calls' = Append(calls, [f |-> f, s |-> s, d |-> d])
    /\ values' = IF f = "assign" THEN assign(values, s, d) ELSE eliminate(values, s, d)
    /\ UNCHANGED <<local, units, peers, grid, entry, run, first, pc, clues, pos, heap, stack, at,
                   arg, ret, square, current_conflicts, best_neighbor, best_conflicts,
                   returned>>

call_assign == \E s \in ProbeSquares, d \in ProbeDigits : call("assign", s, d)

call_eliminate == \E s \in ProbeSquares, d \in ProbeDigits : call("eliminate", s, d)

NextPropagate ==
    \/ call_parse_grid
    \/ parse_grid_item
    \/ call_assign
    \/ call_eliminate

SpecPropagate == InitPropagate /\ [][NextPropagate]_vars

(***************************************************************************)
(* Local search: src/sudoku_annealing.py, and src/sudoku_hillclimbing.py,  *)
(* whose lines 17-86 are the lines 18-87 of src/sudoku_annealing.py.  Here *)
(* values[s] is one character: the dicts hold a digit or a blank for each  *)
(* square, never a string of candidates.                                   *)
(***************************************************************************)

\* '0.'
empties == <<"0", ".">>

\* cube = {s: [u for u in unit if u != s] for unit in unit_list for s in unit
\*         if len(unit) == 9}: a later unit replaces the entry of an earlier
\* one, so that cube[s] is the last unit of s, its box, less s
cube ==
    [s \in Squares |->
        LET us == SelectSeq(unitlist, LAMBDA unit : In(s, unit) /\ Len(unit) = 9)
        IN SelectSeq(us[Len(us)], LAMBDA u : u # s)]

\* the texts given to the local searches: the solution of grid1 less the
\* clues of some cells (A1 is cell 1, A2 cell 2, B1 cell 10, A4 cell 4)
LocalBlanks == {{}, {2, 3}, {1, 2}, {1, 2, 10}, {2, 4}}

LocalTexts == {[i \in 1..Len(solved1) |-> IF i \in B THEN "." ELSE solved1[i]] : B \in LocalBlanks}

\* the module is loaded, and a caller holds one of the texts
InitLocal ==
    /\ units = units_dict
    /\ peers \in peers_dicts
    /\ grid \in LocalTexts
    /\ entry = ""
    /\ run = 1
    /\ first = None
    /\ pc = "local.parse_grid"
    /\ Idle

\* the variables of src/sudoku(Python3.8+).py alone
main == <<units, peers, entry, run, first, clues, heap, stack, at, arg, ret, calls>>

\* parse_grid is called: values = grid_values(grid), which asserts
\* len(chars) == 81 and fills unfixed
local_call_parse_grid ==
    /\ pc = "local.parse_grid"
    /\ IF Len(chars(grid)) = 81
       THEN /\ values' = grid_values(grid)
            /\ unfixed' = SelectSeq(squares, LAMBDA s : In(grid_values(grid)[s], empties))
            /\ pos' = 1
            /\ pc' = "local.for s"
       ELSE /\ pc' = "AssertionError"
            /\ UNCHANGED <<values, unfixed, pos>>
    /\ UNCHANGED <<main, grid, square, current_conflicts, best_neighbor, best_conflicts,
                   returned, current, current_score, next_neighbor, neighbors, iteration>>

\* parse_grid: one square of "for s in squares", or the end of the loop: a
\* blank square is given any digit that no filled square of its cube has
local_parse_grid_item ==
    /\ pc = "local.for s"
    /\ IF pos > Len(squares)
       THEN /\ pc' = "local.parsed"
            /\ UNCHANGED <<values, pos>>
       ELSE LET s == squares[pos]
                filled_values == {values[i] : i \in {x \in Range(cube[s]) : ~In(values[x], empties)}}
                possible_values == Range(digits) \ filled_values
            IN /\ IF In(values[s], empties) /\ possible_values # {}
                  THEN \E d \in possible_values : values' = [values EXCEPT ![s] = d]
                  ELSE UNCHANGED values
               /\ pos' = pos + 1
               /\ UNCHANGED pc
    /\ UNCHANGED <<main, grid, square, current_conflicts, best_neighbor, best_conflicts,
                   returned, unfixed, current, current_score, next_neighbor, neighbors, iteration>>

\* get_conflicts(values): the squares whose digit is more than once in their
\* row, or in their column, that are in unfixed (a set made into a list: its
\* length alone is used)
get_conflicts(v) ==
    LET in_rows == {rows[i] \o cols[k] : i \in 1..9, k \in 1..9}
        conflicts ==
            {s \in in_rows :
                \E i \in 1..9, k \in 1..9 :
                    /\ s = rows[i] \o cols[k]
                    /\ In(v[s], digits)
                    /\ \/ Cardinality({j \in 1..9 : v[rows[i] \o cols[j]] = v[s]}) > 1
                       \/ Cardinality({j \in 1..9 : v[rows[j] \o cols[k]] = v[s]}) > 1}
    IN conflicts \cap Range(unfixed)

(***************************************************************************)
(* Simulated annealing: src/sudoku_annealing.py lines 132-205.  The        *)
(* temperature t is left out: it decides how likely a worse neighbor is    *)
(* accepted, and when the loop ends, and the model allows both outcomes of *)
(* the one and ends the loop at MaxIteration.  reheat (lines 172-175)      *)
(* changes the local values and t, which the result does not depend on.    *)
(***************************************************************************)

\* the turns of the loop of simulated_annealing the model follows
MaxIteration == 2

\* the condition of the second loop of generate_neighbor, lines 197-199,
\* which is "i not in non_fixed or (i == j and attempts < max_attempts)";
\* attempts < max_attempts holds when the loop is reached
redrawn(i, j, non_fixed) == ~In(i, non_fixed) \/ (i = j /\ TRUE)

\* generate_neighbor(values, non_fixed): what it may return.  The first loop
\* ends with i in non_fixed, or with attempts == max_attempts (every draw a
\* square that is not in non_fixed) and values is returned; the second ends
\* with a square j of cube[i] for which its condition is false, or with
\* attempts == max_attempts
generate_neighbor(v, non_fixed) ==
    (IF \E s \in Squares : ~In(s, non_fixed) THEN {v} ELSE {})
    \cup UNION {
            (IF \E j \in Range(cube[i]) : redrawn(i, j, non_fixed) THEN {v} ELSE {})
            \cup {swapped(v, i, j) : j \in {x \in Range(cube[i]) : ~redrawn(i, x, non_fixed)}} :
            i \in {x \in Squares : In(x, non_fixed)}}

\* delta < 0 or random.uniform(0, 1) < math.exp(-delta / t): what the test
\* may give.  random.uniform(0, 1) is less than 1, which is exp(0)
accepted(delta) == IF delta <= 0 THEN {TRUE} ELSE {TRUE, FALSE}

\* solve(grid) calls simulated_annealing(parse_grid(grid)), up to its loop
call_simulated_annealing ==
    /\ pc = "local.parsed"
    /\ current' = values
    /\ current_score' = Cardinality(get_conflicts(values))
    /\ iteration' = 0
    /\ pc' = "simulated_annealing"
    /\ UNCHANGED <<main, grid, pos, values, square, current_conflicts, best_neighbor,
                   best_conflicts, returned, unfixed, next_neighbor, neighbors>>

\* a turn of the loop up to its first test: a neighbor is generated, and
\* current is returned when its score is 0
simulated_annealing_generate ==
    /\ pc = "simulated_annealing"
    /\ iteration < MaxIteration
    /\ iteration' = iteration + 1
    /\ next_neighbor' \in generate_neighbor(current, unfixed)
    /\ IF current_score = 0
       THEN returned' = current /\ pc' = "returned"
       ELSE pc' = "evaluate" /\ UNCHANGED returned
    /\ UNCHANGED <<main, grid, pos, values, square, current_conflicts, best_neighbor,
                   best_conflicts, unfixed, current, current_score, neighbors>>

\* the rest of the turn: the neighbor is scored, and accepted or not
simulated_annealing_evaluate ==
    /\ pc = "evaluate"
    /\ LET next_score == Cardinality(get_conflicts(next_neighbor))
           delta == next_score - current_score
       IN \E move \in accepted(delta) :
              IF move
              THEN current' = next_neighbor /\ current_score' = next_score
              ELSE UNCHANGED <<current, current_score>>
    /\ pc' = "simulated_annealing"
    /\ UNCHANGED <<main, grid, pos, values, square, current_conflicts, best_neighbor,
                   best_conflicts, returned, unfixed, next_neighbor, neighbors, iteration>>

\* the loop ends: return current.copy()
simulated_annealing_return ==
    /\ pc = "simulated_annealing"
    /\ iteration >= MaxIteration
    /\ returned' = current
    /\ pc' = "returned"
    /\ UNCHANGED <<main, grid, pos, values, square, current_conflicts, best_neighbor,
                   best_conflicts, unfixed, current, current_score, next_neighbor, neighbors,
                   iteration>>

NextAnnealing ==
    \/ local_call_parse_grid
    \/ local_parse_grid_item
    \/ call_simulated_annealing
    \/ simulated_annealing_generate
    \/ simulated_annealing_evaluate
    \/ simulated_annealing_return

SpecAnnealing == InitLocal /\ [][NextAnnealing]_vars

(***************************************************************************)
(* Hill climbing: src/sudoku_hillclimbing.py lines 131-185.                *)
(***************************************************************************)

\* s_values, "a represent for every 3*3 cube"
s_values == <<"A1", "A4", "A7", "D1", "D4", "D7", "H1", "H4", "H7">>

\* list(itertools.combinations(seq, 2)): the pairs of elements of seq, each
\* pair in the order of seq, the pairs in the order of their positions
combinations(seq) ==
    LET n == Len(seq)
        positions == [k \in 1..(n * n) |-> <<((k - 1) \div n) + 1, ((k - 1) % n) + 1>>]
        pairs == SelectSeq(positions, LAMBDA c : c[1] < c[2])
    IN [k \in 1..Len(pairs) |-> <<seq[pairs[k][1]], seq[pairs[k][2]]>>]

\* the neighbors generate_all_neighbors appends for the representative s
cube_neighbors(v, s) ==
    LET unfilled_squares == SelectSeq(cube[s], LAMBDA sq : In(sq, unfixed))
        c == combinations(unfilled_squares)
    IN IF Len(unfilled_squares) < 2 THEN <<>>
       ELSE [k \in 1..Len(c) |-> swapped(v, c[k][1], c[k][2])]

\* the neighbors appended for the representatives from the k-th on
RECURSIVE neighbors_from(_, _)
neighbors_from(v, k) ==
    IF k > Len(s_values) THEN <<>>
    ELSE cube_neighbors(v, s_values[k]) \o neighbors_from(v, k + 1)

\* generate_all_neighbors(values)
generate_all_neighbors(v) == neighbors_from(v, 1)

\* "for neighbor in neighbors", from the k-th neighbor on: best_neighbor and
\* best_conflicts at the end of the loop
RECURSIVE evaluated(_, _, _, _)
evaluated(ns, k, best, best_c) ==
    IF k > Len(ns) THEN [best_neighbor |-> best, best_conflicts |-> best_c]
    ELSE IF improves(Cardinality(get_conflicts(ns[k])), best_c)
         THEN evaluated(ns, k + 1, ns[k], Cardinality(get_conflicts(ns[k])))
         ELSE evaluated(ns, k + 1, best, best_c)

\* solve(grid) calls hill_climbing(parse_grid(grid)), up to its loop
call_local_hill_climbing ==
    /\ pc = "local.parsed"
    /\ current_conflicts' = Cardinality(get_conflicts(values))
    /\ pc' = "local.hill_climbing"
    /\ UNCHANGED <<main, local, grid, pos, values, square, best_neighbor, best_conflicts,
                   returned>>

\* a turn of "while True" up to its loop over the neighbors: values is
\* returned when it has no conflict
local_hill_climbing_generate ==
    /\ pc = "local.hill_climbing"
    /\ neighbors' = generate_all_neighbors(values)
    /\ best_neighbor' = None
    /\ best_conflicts' = current_conflicts
    /\ IF current_conflicts = 0
       THEN returned' = values /\ pc' = "returned"
       ELSE pc' = "local.for neighbor" /\ UNCHANGED returned
    /\ UNCHANGED <<main, grid, pos, values, square, current_conflicts, unfixed, current,
                   current_score, next_neighbor, iteration>>

\* the loop over the neighbors and the end of the turn: stop, or move to
\* the best neighbor
local_hill_climbing_move ==
    /\ pc = "local.for neighbor"
    /\ LET e == evaluated(neighbors, 1, best_neighbor, best_conflicts)
       IN /\ best_neighbor' = e.best_neighbor
          /\ best_conflicts' = e.best_conflicts
          /\ IF stops(e.best_neighbor, e.best_conflicts, current_conflicts)
             THEN /\ returned' = values
                  /\ pc' = "returned"
                  /\ UNCHANGED <<values, current_conflicts>>
             ELSE /\ values' = e.best_neighbor
                  /\ current_conflicts' = e.best_conflicts
                  /\ pc' = "local.hill_climbing"
                  /\ UNCHANGED returned
    /\ UNCHANGED <<main, local, grid, pos, square>>

NextHillClimbing ==
    \/ local_call_parse_grid
    \/ local_parse_grid_item
    \/ call_local_hill_climbing
    \/ local_hill_climbing_generate
    \/ local_hill_climbing_move

SpecHillClimbing == InitLocal /\ [][NextHillClimbing]_vars

(***************************************************************************)
(* What the claims are stated with.  A cell is named by its row and its    *)
(* column, and two cells see each other when they share a row, a column or *)
(* a box: none of this reads unitlist, units or peers.                     *)
(***************************************************************************)

Name(r, c) == rows[r] \o digits[c]

Coord == [s \in {Name(r, c) : r \in 1..9, c \in 1..9} |->
             CHOOSE rc \in (1..9) \X (1..9) : Name(rc[1], rc[2]) = s]

Column == [s \in DOMAIN Coord |-> {Name(r, Coord[s][2]) : r \in 1..9}]

Row == [s \in DOMAIN Coord |-> {Name(Coord[s][1], c) : c \in 1..9}]

Box == [s \in DOMAIN Coord |->
           {Name(r, c) : r \in {x \in 1..9 : (x - 1) \div 3 = (Coord[s][1] - 1) \div 3},
                         c \in {x \in 1..9 : (x - 1) \div 3 = (Coord[s][2] - 1) \div 3}}]

Sees == [s \in DOMAIN Coord |-> (Column[s] \cup Row[s] \cup Box[s]) \ {s}]

Houses == {Column[s] : s \in DOMAIN Coord} \cup {Row[s] : s \in DOMAIN Coord}
          \cup {Box[s] : s \in DOMAIN Coord}

Digits == {"1", "2", "3", "4", "5", "6", "7", "8", "9"}

\* every cell of the dict v has exactly one candidate
Determined(v) == \A s \in DOMAIN Coord : Len(v[s]) = 1

\* the dict v is a solved grid: every cell determined, every house a permutation of 1..9
Solved(v) ==
    /\ Determined(v)
    /\ \A h \in Houses : {v[s][1] : s \in h} = Digits

\* the cells of a well-formed text: the characters that count, by position
CellOf(s) == 9 * (Coord[s][1] - 1) + Coord[s][2]

Counted(text) == SelectSeq(text, LAMBDA c : c \in Digits \cup {"0", "."})

\* the complete grid S (a digit for each cell) is a valid solution
IsSolution(S) ==
    /\ DOMAIN S = DOMAIN Coord
    /\ \A s \in DOMAIN S : S[s] \in Digits /\ \A p \in Sees[s] : S[p] # S[s]

\* S gives every clue of the text its digit
Extends(S, text) ==
    LET c == Counted(text)
    IN \A s \in DOMAIN S : c[CellOf(s)] \in Digits => S[s] = c[CellOf(s)]

\* S(c) is a candidate of every cell c of the dict v
Candidate(S, v) == \A s \in DOMAIN S : In(S[s], v[s])

\* solved1 with the digits 1..MaxBlankDigit renamed among themselves
KnownSolutions ==
    LET B == {digits[i] : i \in 1..MaxBlankDigit}
    IN {[s \in DOMAIN Coord |->
            IF solved1[CellOf(s)] \in B THEN f[solved1[CellOf(s)]] ELSE solved1[CellOf(s)]] :
        f \in {g \in [B -> B] : \A x, y \in B : g[x] = g[y] => x = y}}

\* the cells of g, a list of 81 characters, listed in blanks can be given
\* digits, one after the other, no cell the digit of a cell that it sees
RECURSIVE CanFill(_, _)
CanFill(g, blanks) ==
    IF blanks = <<>> THEN TRUE
    ELSE \E d \in Digits :
            /\ \A p \in Sees[blanks[1]] : g[CellOf(p)] # d
            /\ CanFill([g EXCEPT ![CellOf(blanks[1])] = d], Tail(blanks))

\* the clues of a well-formed text admit a complete valid solution: a known
\* solution extends them, or the blanks can be filled
HasSolution(text) ==
    LET c == Counted(text)
    IN \/ \E S \in KnownSolutions : IsSolution(S) /\ Extends(S, text)
       \/ /\ \A s \in DOMAIN Coord : \A p \in Sees[s] :
                 c[CellOf(s)] \in Digits => c[CellOf(p)] # c[CellOf(s)]
          /\ CanFill(c, SelectSeq(squares, LAMBDA s : c[CellOf(s)] \notin Digits))

(***************************************************************************)
(* The claims.                                                             *)
(***************************************************************************)

\* C1: when search, applied to the grid parse_grid built from a well-formed
\* text, returns a grid and not False, every one of the 81 cells has exactly
\* one candidate, and the nine digits of each of the 27 units are distinct
\* and are the digits 1..9.
C1_SearchSound ==
    (pc = "returned" /\ entry = "search" /\ ~returned.is_False) => Solved(returned.values)

\* search returned a grid after it copied the dict and tried a digit
C1_Witness ==
    /\ pc = "returned" /\ entry = "search" /\ ~returned.is_False
    /\ Len(heap) > 1
    /\ ~Determined(values.values)

\* what search answers: a determined grid when the clues admit a solution,
\* and False only when they admit none
C2_Answer ==
    (pc = "returned" /\ entry = "search") =>
        /\ HasSolution(grid) => (~returned.is_False /\ Determined(returned.values))
        /\ returned.is_False => ~HasSolution(grid)

\* search is never stuck: a call is being made, or a value is being
\* returned, or the innermost call is in its loop
C2_CanStep ==
    pc = "search" => \/ at \in {"call", "return"}
                     \/ at = "loop" /\ stack # <<>>

\* C2: search applied to the grid parse_grid built terminates (it is never
\* stuck, and it takes finitely many steps: from some point on no step is
\* a step of search); it returns a grid with every cell determined whenever
\* the clues admit a complete valid solution, and it returns False only when
\* the clues admit none.
C2_SearchComplete == []C2_Answer /\ []C2_CanStep /\ <>[][pc # "search"]_vars

\* parse_grid built a grid, and search tried every digit of a cell before it returned False
C2_Witness ==
    pc = "returned" /\ entry = "search" /\ returned.is_False /\ ~values.is_False

\* C3: solve returns either a fully solved grid or the infeasibility signal,
\* never a grid in which some cell still has two or more candidates.
C3_SolveNeverPartial ==
    (pc = "returned" /\ entry = "solve") => (returned.is_False \/ Solved(returned.values))

\* C4: for a well-formed text whose clues contradict each other (parse_grid
\* gets False), solve returns the infeasibility signal as a value and does
\* not end in an exception.
C4_UnsolvableReported ==
    (Ended /\ entry = "solve" /\ values.is_False) => (pc = "returned" /\ returned.is_False)

\* C5: a text in which the number of characters that are a digit, '0' or
\* '.' is not 81 is rejected with the error of grid_values and produces no
\* grid; a text in which it is 81 raises no such error.
C5_MalformedRejected ==
    /\ pc # "parse_grid" => (pc = "AssertionError" <=> Len(Counted(grid)) # 81)
    /\ pc = "AssertionError" => (clues = None /\ values = None /\ returned = None)

\* a text of 81 characters or more is rejected
C5_Witness == pc = "AssertionError" /\ Len(grid) >= 81

\* C6: running solve twice on the same well-formed text returns identical
\* grids, the same candidates for every cell (and the two runs end the same
\* way when they return nothing).  What generate_neighbors picks at random
\* never matters: no neighbor has fewer conflicts than the grid parse_grid
\* built, so that hill_climbing never has a best neighbor.
C6_SolveDeterministic ==
    /\ (run = 2 /\ Ended) => outcome = first
    /\ pc = "hill_climbing" => best_neighbor = None

\* the second run returned a grid in which generate_neighbors had squares to pick at random
C6_Witness ==
    /\ run = 2 /\ pc = "returned" /\ entry = "solve"
    /\ \E sq \in Squares : Cardinality(neighbors_squares(returned.values, sq)) > 2

\* 81 cells; 27 units of 9 cells; every cell in exactly 3 of them
C7_Cells_Units ==
    /\ Len(squares) = 81 /\ Cardinality(Squares) = 81 /\ Squares = DOMAIN Coord
    /\ Len(unitlist) = 27
    /\ \A k \in 1..Len(unitlist) :
           Len(unitlist[k]) = 9 /\ Cardinality(Range(unitlist[k])) = 9
    /\ \A s \in Squares :
           Cardinality({k \in 1..Len(unitlist) : s \in Range(unitlist[k])}) = 3

\* C7: 81 cells; 27 units of 9 cells; every cell belongs to exactly 3 units,
\* its column, its row and its box, in that order; peers(cell) is the union
\* of its 3 units minus the cell, has 20 elements and never holds the cell.
C7_Topology ==
    /\ C7_Cells_Units
    /\ DOMAIN units = Squares /\ DOMAIN peers = Squares
    /\ \A s \in Squares :
           /\ Len(units[s]) = 3
           /\ Range(units[s][1]) = Column[s]
           /\ Range(units[s][2]) = Row[s]
           /\ Range(units[s][3]) = Box[s]
           /\ Range(peers[s]) =
                  (Range(units[s][1]) \cup Range(units[s][2]) \cup Range(units[s][3])) \ {s}
           /\ Len(peers[s]) = 20 /\ Cardinality(Range(peers[s])) = 20
           /\ s \notin Range(peers[s])

\* the units and the peers of C2 are those of test(), lines 41-47
C7_Witness ==
    /\ units["C2"] = << <<"A2", "B2", "C2", "D2", "E2", "F2", "G2", "H2", "I2">>,
                        <<"C1", "C2", "C3", "C4", "C5", "C6", "C7", "C8", "C9">>,
                        <<"A1", "A2", "A3", "B1", "B2", "B3", "C1", "C2", "C3">> >>
    /\ Range(peers["C2"]) = {"A2", "B2", "D2", "E2", "F2", "G2", "H2", "I2",
                             "C1", "C3", "C4", "C5", "C6", "C7", "C8", "C9",
                             "A1", "A3", "B1", "B3"}

\* the call the step makes: the call of assign of parse_grid for a clue, or
\* the call a caller makes on the parsed grid
IsCall == \/ pc = "for s, d" /\ pos <= Len(squares) /\ clues[squares[pos]] \in Digits
          \/ pc = "parsed" /\ Len(calls') = Len(calls) + 1

TheCall ==
    IF pc = "for s, d"
    THEN [f |-> "assign", s |-> squares[pos], d |-> clues[squares[pos]]]
    ELSE calls'[Len(calls')]

\* a step that assigns its digit in S to a cell, on a grid where every digit
\* of S is a candidate, succeeds and leaves every digit of S a candidate
C8_Step(S) ==
    (/\ IsCall /\ TheCall.f = "assign" /\ TheCall.d = S[TheCall.s]
     /\ IsSolution(S) /\ Candidate(S, values.values))
    => (~values'.is_False /\ Candidate(S, values'.values))

\* parse_grid does not return False for a text that a solution extends
C8_Parse ==
    (pc = "parsed" /\ calls = <<>>
     /\ \E S \in KnownSolutions : IsSolution(S) /\ Extends(S, grid))
    => ~values.is_False

\* C8: for every grid reached from the all-candidates grid by successful
\* calls of assign, and every complete valid solution S whose digits are all
\* still candidates, assign(grid, c, S(c)) does not return False, and
\* afterwards every S(c') is still a candidate of c'.  So parse_grid never
\* returns False for a text that has a solution.
C8_NoFalseNegative == [][\A S \in KnownSolutions : C8_Step(S)]_vars /\ []C8_Parse

\* a caller assigned to a blank cell the digit of a solution that is not
\* solved1, and the digits of that solution are all still candidates
C8_Witness ==
    /\ pc = "parsed" /\ Len(calls) = 1 /\ calls[1].f = "assign" /\ ~values.is_False
    /\ clues[calls[1].s] \notin Digits
    /\ calls[1].d # solved1[CellOf(calls[1].s)]
    /\ \E S \in KnownSolutions :
           IsSolution(S) /\ S[calls[1].s] = calls[1].d /\ Candidate(S, values.values)

\* assign(grid, c, d) succeeded, and the step calls assign(grid, p, d) for a
\* cell p that sees c: it returns False
C9_Step ==
    (/\ pc = "parsed" /\ Len(calls) = 1 /\ calls[1].f = "assign" /\ ~values.is_False
     /\ Len(calls') = 2 /\ calls'[2].f = "assign"
     /\ calls'[2].d = calls[1].d /\ calls'[2].s \in Sees[calls[1].s])
    => values'.is_False

\* the text gives the same digit to two cells that see each other
PeerClash(text) ==
    LET c == Counted(text)
    IN \E s \in DOMAIN Coord : \E p \in Sees[s] :
           c[CellOf(s)] \in Digits /\ c[CellOf(p)] = c[CellOf(s)]

\* C9: once assign(grid, c, d) has succeeded on a grid reached from the
\* all-candidates grid, assign(grid, p, d) returns False for every peer p of
\* c; and parse_grid returns False, not a grid, for every text that gives
\* the same digit to two peer cells.
C9_PeerClashDetected ==
    [][C9_Step]_vars /\ []((pc = "parsed" /\ PeerClash(grid)) => values.is_False)

\* a caller assigned a digit to a cell, then the same digit to a cell that
\* sees it and that was no clue of the text
C9_Witness ==
    /\ pc = "parsed" /\ Len(calls) = 2 /\ calls[1].f = "assign" /\ calls[2].f = "assign"
    /\ calls[2].s \in Sees[calls[1].s]
    /\ clues[calls[1].s] \notin Digits /\ clues[calls[2].s] \notin Digits
    /\ values.is_False

\* the step calls eliminate(grid, c, d) for a digit d that is no candidate
\* of c: the grid is returned as it was
C10_Absent ==
    (/\ pc = "parsed" /\ Len(calls') = Len(calls) + 1 /\ TheCall.f = "eliminate"
     /\ \A i \in 1..Len(values.values[TheCall.s]) : values.values[TheCall.s][i] # TheCall.d)
    => (~values'.is_False /\ values'.values = values.values)

\* the step calls eliminate a second time with the arguments of a call that succeeded
C10_Again ==
    (/\ pc = "parsed" /\ Len(calls) = 1 /\ calls[1].f = "eliminate" /\ ~values.is_False
     /\ Len(calls') = 2 /\ calls'[2] = calls[1])
    => (~values'.is_False /\ values'.values = values.values)

\* C10: eliminate(grid, cell, digit), for a digit that is not a candidate of
\* the cell, returns the grid with every candidate set unchanged and signals
\* no contradiction; so a second call of eliminate with the same arguments,
\* after a call that succeeded, changes nothing.
C10_EliminateIdempotent == [][C10_Absent /\ C10_Again]_vars

\* eliminate removed a candidate of a cell, and was called again with the same arguments
C10_Witness ==
    /\ pc = "parsed" /\ Len(calls) = 2 /\ calls[1].f = "eliminate" /\ calls[2] = calls[1]
    /\ ~values.is_False
    /\ clues[calls[1].s] \notin Digits
    /\ Len(values.values[calls[1].s]) < 9

\* the clues of the cells, written one after the other in row-major order
Written(c) == [i \in 1..81 |-> c[Name(((i - 1) \div 9) + 1, ((i - 1) % 9) + 1)]]

\* a text with 81 valid characters is parsed, and the clues parsed, written
\* back in row-major order, are the valid characters of the text in order
C11_Parsed ==
    /\ (pc # "parse_grid" /\ Len(Counted(grid)) = 81) => clues # None
    /\ clues # None => (DOMAIN clues = DOMAIN Coord /\ Written(clues) = Counted(grid))

\* C11: for every text with exactly 81 valid characters, grid_values gives
\* the i-th valid character to the i-th cell in row-major order: a clue is
\* parsed for every cell, and the clues written back in row-major order are
\* the sequence of the valid characters of the text, digits and blanks each
\* at its position, at every point of every run.
C11_RoundTrip == []C11_Parsed

\* a text was parsed that has a separator before its last valid character, a blank
C11_Witness ==
    /\ clues # None /\ Len(grid) > 81
    /\ grid[Len(grid)] = "." /\ grid[Len(grid) - 1] = "|"
    /\ clues[Name(9, 9)] = "."

\* the cell s is one search may branch on in the dict v: it has at least two
\* candidates, no cell with at least two has fewer, and no cell before it in
\* row-major order has as few
Branching(v, s) ==
    /\ Len(v[s]) >= 2
    /\ \A t \in DOMAIN Coord : Len(v[t]) >= 2 => Len(v[t]) >= Len(v[s])
    /\ \A t \in DOMAIN Coord :
           (Len(v[t]) >= 2 /\ CellOf(t) < CellOf(s)) => Len(v[t]) > Len(v[s])

\* C12: at every grid that is not terminal, search branches on a cell with
\* at least two candidates whose number of candidates is the least among
\* such cells, the first of them in row-major order when several tie; and
\* every action of Sudoku.actions for that grid is on the same cell, one
\* action for each of its candidates.
C12_BranchingCell ==
    [] \A k \in 1..Len(stack) :
        LET f == stack[k]
            v == heap[f.values]
            a == actions(Values(v))
        IN /\ Branching(v, f.s)
           /\ f.ds = v[f.s]
           /\ Len(a) = Len(v[f.s])
           /\ \A i \in 1..Len(a) : a[i] = <<f.s, v[f.s][i]>>

\* search branches on a cell that is not the first undetermined cell, and
\* that ties with a later cell
C12_Witness ==
    /\ stack # <<>>
    /\ LET f == stack[Len(stack)]
           v == heap[f.values]
       IN /\ \E t \in DOMAIN Coord : CellOf(t) < CellOf(f.s) /\ Len(v[t]) > Len(v[f.s])
          /\ \E t \in DOMAIN Coord : CellOf(t) > CellOf(f.s) /\ Len(v[t]) = Len(v[f.s])

\* the number a digit stands for
DigitValue(d) == CHOOSE n \in 1..9 : <<"1", "2", "3", "4", "5", "6", "7", "8", "9">>[n] = d

Ascending(ds) == \A i, j \in 1..Len(ds) : i < j => DigitValue(ds[i]) < DigitValue(ds[j])

\* the innermost call of search that is in its loop
Top == stack[Len(stack)]

\* every call of search iterates over the candidates of its cell, which are
\* in ascending order, and the digits before the next one have been tried
C13_Frames ==
    \A k \in 1..Len(stack) :
        /\ stack[k].ds = heap[stack[k].values][stack[k].s]
        /\ Ascending(stack[k].ds)
        /\ stack[k].i \in 1..(Len(stack[k].ds) + 1)

\* a step of the loop with a digit left: the next digit in ascending order is
\* assigned on a copy, and search is called with what assign returned
C13_Try ==
    (pc = "search" /\ at = "loop" /\ stack # <<>> /\ Top.i <= Len(Top.ds))
    => /\ at' = "call"
       /\ Len(stack') = Len(stack)
       /\ stack'[Len(stack)].i = Top.i + 1
       /\ arg' # NoRef => (/\ arg' # Top.values
                           /\ heap'[arg'][Top.s] = <<Top.ds[Top.i]>>
                           /\ \A j \in 1..(Top.i - 1) :
                                  DigitValue(Top.ds[j]) < DigitValue(heap'[arg'][Top.s][1]))

\* a branch returned False to a call in its loop: the call goes on with its loop
C13_Backtrack ==
    (pc = "search" /\ at = "return" /\ stack # <<>> /\ ret = NoRef)
    => (at' = "loop" /\ stack' = stack /\ pc' = "search")

\* a branch returned a grid to a call in its loop: the call returns that
\* grid, and tries no later digit
C13_FirstSuccess ==
    (pc = "search" /\ at = "return" /\ stack # <<>> /\ ret # NoRef)
    => /\ at' = "return" /\ ret' = ret /\ heap' = heap
       /\ stack' = SubSeq(stack, 1, Len(stack) - 1)

\* a call in its loop returns False exactly when no digit is left
C13_Exhausted ==
    /\ (pc = "search" /\ at = "loop" /\ stack # <<>> /\ Top.i > Len(Top.ds))
       => (at' = "return" /\ ret' = NoRef /\ stack' = SubSeq(stack, 1, Len(stack) - 1))
    /\ (pc = "search" /\ at = "loop" /\ at' = "return") => (ret' = NoRef /\ Top.i > Len(Top.ds))

\* the grid search returned gives the first cell it branched on the least
\* digit that a solution of the clues gives it
C13_Least ==
    (pc = "returned" /\ entry = "search" /\ ~returned.is_False /\ ~Determined(values.values))
    => \A s \in DOMAIN Coord :
           Branching(values.values, s) =>
               \A S \in KnownSolutions :
                   (IsSolution(S) /\ Extends(S, grid))
                   => DigitValue(returned.values[s][1]) <= DigitValue(S[s])

\* C13: for the chosen cell, search tries its candidate digits in ascending
\* order; it returns the grid of the first digit whose branch reaches a
\* terminal grid, and explores no later digit; when a branch yields False it
\* moves on to the next digit; it returns False exactly when the branches
\* of all the candidate digits of the cell have failed.
C13_SearchOrder ==
    /\ []C13_Frames
    /\ [][C13_Try /\ C13_Backtrack /\ C13_FirstSuccess /\ C13_Exhausted]_vars
    /\ []C13_Least

\* a grid is being returned through the calls of search: one of them got it
\* from its second digit, after the branch of its first digit failed, and
\* one of them has a later digit, which it leaves untried
C13_Witness ==
    /\ pc = "search" /\ at = "return" /\ ret # NoRef
    /\ \E k \in 1..Len(stack) : stack[k].i >= 3
    /\ \E k \in 1..Len(stack) : stack[k].i <= Len(stack[k].ds)

\* a step of search leaves every dict that exists before and after it as it was
C14_Step ==
    (pc = "search" /\ pc' = "search")
    => \A k \in 1..Len(heap) : k <= Len(heap') => heap'[k] = heap[k]

\* the grid the caller gave to search is as parse_grid built it, while
\* search runs and after it returned, with a grid or with False
C14_Given ==
    (pc \in {"search", "returned"} /\ entry = "search" /\ ~values.is_False)
    => (Len(heap) >= 1 /\ heap[1] = values.values)

\* the grid of a call of search in its loop shows no elimination of its
\* branches: its cell has the candidates the loop iterates over, and it is
\* not the dict given to a call inside it
C14_Frames ==
    \A k \in 1..Len(stack) :
        /\ heap[stack[k].values][stack[k].s] = stack[k].ds
        /\ \A j \in 1..Len(stack) : j # k => stack[j].values # stack[k].values
        /\ (at = "call" /\ arg # NoRef) => arg # stack[k].values

\* Sudoku.result on the grid of the innermost call leaves that grid as it
\* was, whatever the action, and returns another dict
C14_Result ==
    (pc = "search" /\ at = "loop" /\ stack # <<>>)
    => \A i \in 1..Len(actions(Values(heap[Top.values]))) :
           LET new == result(heap, Top.values, actions(Values(heap[Top.values]))[i])
           IN /\ new.heap[Top.values] = heap[Top.values]
              /\ new.ref # Top.values

\* C14: search never changes the grid it is given: its candidates are the
\* same after the call returned, with a grid or with False, as before; the
\* eliminations of a failed branch do not show in the grid on which the
\* next digit is tried; each branch's assign works on a copy of its own,
\* in search and in Sudoku.result.
C14_BranchIndependence ==
    /\ [][C14_Step]_vars
    /\ [](C14_Given /\ C14_Frames /\ C14_Result)

\* a branch failed, after it eliminated candidates on its copy, and the
\* call is about to try its next digit
C14_Witness ==
    /\ pc = "search" /\ at = "loop" /\ stack # <<>>
    /\ Top.i >= 2 /\ Top.i <= Len(Top.ds)
    /\ ret = NoRef
    /\ heap[Top.values][Top.s] = Top.ds

\* no cell of the dict v is without a candidate, and the digit of a cell
\* with one candidate is a candidate of no cell that it sees
Closed(v) ==
    \A s \in DOMAIN Coord :
        /\ Len(v[s]) >= 1
        /\ Len(v[s]) = 1 => \A p \in Sees[s] : \A i \in 1..Len(v[p]) : v[p][i] # v[s][1]

\* the grid parse_grid returned, and the grids the calls of assign on it
\* returned, each call on the grid the one before it returned
C15_Grids ==
    (/\ pc = "parsed" /\ ~values.is_False
     /\ \A i \in 1..Len(calls) : calls[i].f = "assign")
    => Closed(values.values)

\* a call of assign that succeeds leaves the cell with the digit, and it alone
C15_Assigned ==
    (IsCall /\ TheCall.f = "assign" /\ ~values'.is_False)
    => values'.values[TheCall.s] = <<TheCall.d>>

\* C15: in every grid parse_grid returns, and in every grid a successful
\* assign returns when applied to such a grid, every cell has a candidate,
\* the candidates of the assigned cell are the assigned digit alone, and
\* for every cell with a single candidate d no peer of the cell has d among
\* its candidates.
C15_PropagationClosed == []C15_Grids /\ [][C15_Assigned]_vars

\* a caller assigned a digit to a blank cell of a parsed grid: a blank cell
\* that sees it keeps two candidates or more, the digit not among them
C15_Witness ==
    /\ pc = "parsed" /\ Len(calls) = 1 /\ calls[1].f = "assign" /\ ~values.is_False
    /\ clues[calls[1].s] \notin Digits
    /\ values.values[calls[1].s] = <<calls[1].d>>
    /\ \E p \in Sees[calls[1].s] : clues[p] \notin Digits /\ Len(values.values[p]) >= 2

\* the clue the text gives the cell s: a digit, or a blank
Clue(s) == Counted(grid)[CellOf(s)]

\* the cells the text leaves blank
Blank == {s \in DOMAIN Coord : Clue(s) \notin Digits}

\* the dict w is the dict v with the values of the cells a and b exchanged
SwapOf(w, v, a, b) ==
    /\ w[a] = v[b] /\ w[b] = v[a]
    /\ \A s \in DOMAIN Coord : s \notin {a, b} => w[s] = v[s]

\* C16: generate_neighbor returns the grid unchanged, or a grid that
\* differs from it only by the exchange of the values of two distinct cells
\* of the same box, both of them blank in the puzzle; so after any number of
\* turns of simulated_annealing every clue cell holds its clue digit.
C16_OnlyBlanksMoved ==
    /\ pc = "evaluate" =>
           \/ next_neighbor = current
           \/ \E a \in Blank : \E b \in Blank \cap (Box[a] \ {a}) : SwapOf(next_neighbor, current, a, b)
    /\ pc \in {"simulated_annealing", "evaluate", "returned"} =>
           \A s \in DOMAIN Coord : Clue(s) \in Digits => current[s] = Clue(s)

\* the unordered pairs of distinct blank cells of one box
BlankPairs ==
    {P \in {{a, b} : a \in Blank, b \in Blank} :
        Cardinality(P) = 2 /\ \A a \in P : P \subseteq Box[a]}

\* the dict w is v with the values of the two cells of the pair P exchanged
PairSwap(w, v, P) == \E a \in P : \E b \in P \ {a} : SwapOf(w, v, a, b)

\* the neighbors generate_all_neighbors returned for values are one for
\* each pair, the grid with the values of the pair exchanged
C17_Neighbors ==
    pc = "local.for neighbor" =>
        /\ Len(neighbors) = Cardinality(BlankPairs)
        /\ \A P \in BlankPairs : \E k \in 1..Len(neighbors) : PairSwap(neighbors[k], values, P)
        /\ \A k \in 1..Len(neighbors) : \E P \in BlankPairs : PairSwap(neighbors[k], values, P)

\* the grid v with the values of the cells of a pair exchanged, as a dict
Exchanged(v, P) ==
    [s \in DOMAIN v |-> IF s \in P THEN v[CHOOSE o \in P : o # s] ELSE v[s]]

\* hill_climbing returned a grid that has conflicts: no exchange within a
\* pair has fewer
C17_Stops ==
    (pc = "returned" /\ Cardinality(get_conflicts(returned)) > 0)
    => \A P \in BlankPairs :
           Cardinality(get_conflicts(Exchanged(returned, P)))
               >= Cardinality(get_conflicts(returned))

\* C17: generate_all_neighbors returns exactly one neighbor for every
\* unordered pair of distinct non-fixed cells of the same box, over the nine
\* boxes, the grid with the values of the two cells exchanged and every
\* other cell unchanged; so hill_climbing stops without a grid of zero
\* conflicts only when no exchange of two non-fixed cells of a box lowers
\* the number of conflicts.
C17_AllNeighbors == C17_Neighbors /\ C17_Stops

====
